---- MODULE Spec2Model ----
(***************************************************************************)
(* Marketplace AI agents: the price-suggestion, chat-moderation and        *)
(* recommendation pipelines (src/agents/*.py) as called by the request     *)
(* handlers of src/main.py, and the logger the handlers write to           *)
(* (src/utils/logger.py).                                                  *)
(*                                                                         *)
(* Python values are tagged records (None, Num, Str, List, Dict).  A       *)
(* Python str is a sequence of pieces: single characters where the code    *)
(* looks at characters (messages, conditions), larger atoms where it only  *)
(* looks at whole words (the LLM completion text).                         *)
(***************************************************************************)
EXTENDS Integers, Sequences, FiniteSets, TLC

VARIABLES
    dataset,    \* RecommendationAgent.dataset: the catalog rows, in file order
    tieOrder,   \* how this build's quicksort orders rows with equal keys
    op,         \* the pipeline the last request ran: "none" before any request
    arg,        \* the argument object of the last request, as the call left it
    llm,        \* the LLM exchange of the last request: [called, reply]
    out,        \* what the last call did: [raised |-> exception or "", value |-> result]
    first,      \* the outcome of the call before, when this one repeats it
    calls,      \* how many times in a row the last request has been made
    csvFile,    \* the CSV log files: the rows of each, the header first
    jsonFile,   \* the JSON log files: [state, doc] of each
    pc,         \* where each worker thread stands in its logging call
    locals,     \* the locals of each worker's logging call
    logged,     \* the entries of the logging calls that have returned, per log
    started     \* how many logging calls have begun

agentVars == <<dataset, tieOrder, op, arg, llm, out, first, calls>>
logVars == <<csvFile, jsonFile, pc, locals, logged, started>>
vars == <<dataset, tieOrder, op, arg, llm, out, first, calls,
          csvFile, jsonFile, pc, locals, logged, started>>

----------------------------------------------------------------------------
(* Python values *)

None == [t |-> "null", n |-> 0, s |-> <<>>, d |-> <<>>]
Num(n) == [t |-> "num", n |-> n, s |-> <<>>, d |-> <<>>]
Str(s) == [t |-> "str", n |-> 0, s |-> s, d |-> <<>>]
List(l) == [t |-> "list", n |-> 0, s |-> <<>>, d |-> l]
Dict(d) == [t |-> "dict", n |-> 0, s |-> <<>>, d |-> d]

\* bool(v), as the test of an if statement evaluates it
Truthy(v) ==
    CASE v.t = "null" -> FALSE
      [] v.t = "num" -> v.n # 0
      [] v.t = "str" -> v.s # <<>>
      [] OTHER -> DOMAIN v.d # {}

\* str(v) inside an f-string
Format(v) ==
    CASE v.t = "str" -> v.s
      [] v.t = "num" -> <<ToString(v.n)>>
      [] v.t = "null" -> <<"None">>
      [] OTHER -> <<"<", v.t, ">">>

\* A dict key is a str, hence a sequence of pieces.
K(name) == <<name>>

\* d[key] = value on a dict value
SetItem(v, key, value) == Dict((key :> value) @@ v.d)

\* What v[key] raises ("" when it yields a value): a missing key on a dict is
\* a KeyError; a str key on a list or a str, or any subscript of a number, is
\* a TypeError.
GetItemError(v, key) ==
    IF v.t = "dict"
    THEN IF key \in DOMAIN v.d THEN "" ELSE "KeyError"
    ELSE "TypeError"

\* What v * 1.5 (or v * 0.5) raises: only numbers multiply by a float.
TimesFloatError(v) == IF v.t = "num" THEN "" ELSE "TypeError"

Ok(v) == [raised |-> "", value |-> v]
Raise(e) == [raised |-> e, value |-> None]

----------------------------------------------------------------------------
(* str methods *)

Whitespace == {" ", "\n"}

\* The backtick character (the lexer of TLA+ does not take it in a string).
Backtick == "BACKTICK"

RECURSIVE LStrip(_, _)
LStrip(s, chars) ==
    IF s # <<>> /\ Head(s) \in chars THEN LStrip(Tail(s), chars) ELSE s

RECURSIVE RStrip(_, _)
RStrip(s, chars) ==
    IF s # <<>> /\ s[Len(s)] \in chars
    THEN RStrip(SubSeq(s, 1, Len(s) - 1), chars)
    ELSE s

\* s.strip() with chars = Whitespace; s.strip(backtick) with chars = the backtick
Strip(s, chars) == RStrip(LStrip(s, chars), chars)

\* s.startswith(three backticks)
StartsWithFence(s) ==
    Len(s) >= 3 /\ s[1] = Backtick /\ s[2] = Backtick /\ s[3] = Backtick

\* "json" in s.  The completion texts are cut into pieces so that the four
\* letters occur only as a piece of their own.
ContainsJson(s) == \E i \in 1..Len(s) : s[i] = "json"

\* s.replace("json", "", 1): the first occurrence goes, the rest stays
ReplaceFirstJson(s) ==
    IF ContainsJson(s)
    THEN LET i == CHOOSE j \in 1..Len(s) :
                    s[j] = "json" /\ \A k \in 1..(j - 1) : s[k] # "json"
         IN SubSeq(s, 1, i - 1) \o SubSeq(s, i + 1, Len(s))
    ELSE s

LowerTable ==
    [c \in {"A", "B", "C", "D", "E", "F", "G", "H", "I", "J", "K", "L", "M",
            "N", "O", "P", "Q", "R", "S", "T", "U", "V", "W", "X", "Y", "Z"} |->
        CASE c = "A" -> "a" [] c = "B" -> "b" [] c = "C" -> "c" [] c = "D" -> "d"
          [] c = "E" -> "e" [] c = "F" -> "f" [] c = "G" -> "g" [] c = "H" -> "h"
          [] c = "I" -> "i" [] c = "J" -> "j" [] c = "K" -> "k" [] c = "L" -> "l"
          [] c = "M" -> "m" [] c = "N" -> "n" [] c = "O" -> "o" [] c = "P" -> "p"
          [] c = "Q" -> "q" [] c = "R" -> "r" [] c = "S" -> "s" [] c = "T" -> "t"
          [] c = "U" -> "u" [] c = "V" -> "v" [] c = "W" -> "w" [] c = "X" -> "x"
          [] c = "Y" -> "y" [] c = "Z" -> "z"]

UpperLetters == DOMAIN LowerTable

\* s.lower(), character by character
Lower(s) ==
    [i \in 1..Len(s) |-> IF s[i] \in UpperLetters THEN LowerTable[s[i]] ELSE s[i]]

\* needle in s, for character sequences
Contains(s, needle) ==
    \E i \in 0..(Len(s) - Len(needle)) :
        \A j \in 1..Len(needle) : s[i + j] = needle[j]

----------------------------------------------------------------------------
(* json.loads on a completion text.  The grammar covered: a number, a      *)
(* string, null, a flat object and a flat array, with whitespace between   *)
(* tokens; anything else is a JSONDecodeError.                             *)

Quote == "\""
Punct == {"{", "}", "[", "]", ":", ","}

NumeralValue ==
    [a \in {"0", "100", "150", "200"} |->
        CASE a = "0" -> 0 [] a = "100" -> 100 [] a = "150" -> 150 [] a = "200" -> 200]

Token(k, a, c) == [k |-> k, a |-> a, c |-> c]

\* the index of the quote closing the string opened at i, 0 if there is none
ClosingQuote(text, i) ==
    IF \E j \in (i + 1)..Len(text) : text[j] = Quote
    THEN CHOOSE j \in (i + 1)..Len(text) :
            text[j] = Quote /\ \A k \in (i + 1)..(j - 1) : text[k] # Quote
    ELSE 0

RECURSIVE Tokenize(_, _)
Tokenize(text, i) ==
    IF i > Len(text) THEN <<>>
    ELSE LET a == text[i] IN
         CASE a \in Whitespace -> Tokenize(text, i + 1)
           [] a = Quote ->
                LET j == ClosingQuote(text, i) IN
                IF j = 0 \/ \E k \in (i + 1)..(j - 1) : text[k] = "\n"
                THEN <<Token("bad", a, <<>>)>>
                ELSE <<Token("str", "", SubSeq(text, i + 1, j - 1))>>
                        \o Tokenize(text, j + 1)
           [] a \in Punct -> <<Token("p", a, <<>>)>> \o Tokenize(text, i + 1)
           [] a \in DOMAIN NumeralValue ->
                <<Token("num", a, <<>>)>> \o Tokenize(text, i + 1)
           [] a = "null" -> <<Token("null", a, <<>>)>> \o Tokenize(text, i + 1)
           [] OTHER -> <<Token("bad", a, <<>>)>>

IsScalar(tok) == tok.k \in {"num", "str", "null"}

Scalar(tok) ==
    CASE tok.k = "num" -> Num(NumeralValue[tok.a])
      [] tok.k = "str" -> Str(tok.c)
      [] OTHER -> None

IsP(tok, a) == tok.k = "p" /\ tok.a = a

Parsed(v) == [ok |-> TRUE, v |-> v]
DecodeError == [ok |-> FALSE, v |-> None]

\* "key": scalar, "key": scalar, ...   (a repeated key keeps its last value)
RECURSIVE Members(_, _)
Members(toks, acc) ==
    IF Len(toks) >= 3 /\ toks[1].k = "str" /\ IsP(toks[2], ":") /\ IsScalar(toks[3])
    THEN LET acc2 == (toks[1].c :> Scalar(toks[3])) @@ acc IN
         IF Len(toks) = 3 THEN Parsed(Dict(acc2))
         ELSE IF IsP(toks[4], ",") THEN Members(SubSeq(toks, 5, Len(toks)), acc2)
         ELSE DecodeError
    ELSE DecodeError

\* scalar, scalar, ...
RECURSIVE Elements(_, _)
Elements(toks, acc) ==
    IF Len(toks) >= 1 /\ IsScalar(toks[1])
    THEN LET acc2 == Append(acc, Scalar(toks[1])) IN
         IF Len(toks) = 1 THEN Parsed(List(acc2))
         ELSE IF IsP(toks[2], ",") THEN Elements(SubSeq(toks, 3, Len(toks)), acc2)
         ELSE DecodeError
    ELSE DecodeError

JsonLoads(text) ==
    LET toks == Tokenize(text, 1)
        n == Len(toks)
        inner == SubSeq(toks, 2, n - 1)
    IN
    IF n = 0 \/ \E i \in 1..n : toks[i].k = "bad" THEN DecodeError
    ELSE IF n = 1
         THEN IF IsScalar(toks[1]) THEN Parsed(Scalar(toks[1])) ELSE DecodeError
    ELSE IF IsP(toks[1], "{") /\ IsP(toks[n], "}")
         THEN IF n = 2 THEN Parsed(Dict(<<>>)) ELSE Members(inner, <<>>)
    ELSE IF IsP(toks[1], "[") /\ IsP(toks[n], "]")
         THEN IF n = 2 THEN Parsed(List(<<>>)) ELSE Elements(inner, <<>>)
    ELSE DecodeError

\* The try block shared by llm_price and llm_moderation: the call and
\* response.text may raise, the text is stripped, un-fenced and decoded; any
\* exception gives None.
CompletionJson(reply) ==
    IF reply.raises THEN None
    ELSE LET stripped == Strip(reply.text, Whitespace)
             unfenced ==
                IF StartsWithFence(stripped)
                THEN LET t == Strip(stripped, {Backtick}) IN
                     IF ContainsJson(t)
                     THEN Strip(ReplaceFirstJson(t), Whitespace)
                     ELSE t
                ELSE stripped
             r == JsonLoads(unfenced)
         IN IF r.ok THEN r.v ELSE None

----------------------------------------------------------------------------
(* The LLM collaborator: what self.model.generate_content(prompt) and       *)
(* response.text can give.  The texts are written piece by piece.          *)

Lit(content) == <<Quote>> \o content \o <<Quote>>
Pair(key, value) == Lit(<<key>>) \o <<":", " ">> \o value
Object2(a, b) == <<"{">> \o a \o <<",", " ">> \o b \o <<"}">>
Object3(a, b, c) == <<"{">> \o a \o <<",", " ">> \o b \o <<",", " ">> \o c \o <<"}">>
Fence == <<Backtick, Backtick, Backtick>>
Fenced(tag, body) == Fence \o tag \o <<"\n">> \o body \o <<"\n">> \o Fence
Text(t) == [raises |-> FALSE, text |-> t]
Failure == [raises |-> TRUE, text |-> <<>>]

PriceObject(lo, hi) ==
    Object3(Pair("min_price", <<lo>>), Pair("max_price", <<hi>>),
            Pair("reason", Lit(<<"fair">>)))

PriceReplies ==
    { Failure,
      Text(<<>>),
      Text(<<"Sure", " ", "ok">>),
      Text(PriceObject("100", "150") \o <<"\n">>),
      Text(Fenced(<<"json">>, PriceObject("100", "150"))),
      Text(Fenced(<<>>, PriceObject("100", "150"))),
      Text(PriceObject("200", "100")),
      Text(Object2(Pair("min_price", <<"100">>), Pair("max_price", <<"150">>))),
      Text(Object2(Pair("min_price", <<"100">>), Pair("reason", Lit(<<"fair">>)))),
      Text(Object2(Pair("max_price", <<"100">>), Pair("reason", Lit(<<"fair">>)))),
      Text(Object3(Pair("min_price", Lit(<<"100">>)), Pair("max_price", Lit(<<"150">>)),
                   Pair("reason", Lit(<<"fair">>)))),
      Text(Object3(Pair("min_price", <<"100">>), Pair("max_price", <<"150">>),
                   Pair("reason", <<"null">>))),
      Text(<<"{", "}">>),
      Text(<<"[", "100", ",", " ", "150", "]">>),
      Text(<<"100">>),
      Text(<<"0">>),
      Text(Lit(<<"fair">>)),
      Text(<<"null">>) }

----------------------------------------------------------------------------
(* Products, as ProductRequest.dict() and a dataset row give them: every   *)
(* field present, age_months a non-negative integer, asking_price          *)
(* positive.                                                               *)

LikeNew == <<"l", "i", "k", "e", " ", "n", "e", "w">>
Good == <<"g", "o", "o", "d">>
Fair == <<"f", "a", "i", "r">>

Conditions ==
    { LikeNew,
      <<"L", "i", "k", "e", " ", "N", "e", "w">>,
      <<"l", "i", "k", "e", "-", "n", "e", "w">>,
      Good,
      <<"G", "o", "o", "d">>,
      Fair,
      <<"p", "o", "o", "r">> }

Ages == {0, 24, 100, 101, 1000}
AskingPrices == {49, 50, 150, 151, 225, 226, 1000}

Product(condition, age_months, asking_price) ==
    [title |-> "iPhone 12", category |-> "Mobile", brand |-> "Apple",
     condition |-> condition, age_months |-> age_months,
     asking_price |-> asking_price, location |-> "Mumbai"]

Products ==
    { Product(c, a, p) : c \in Conditions, a \in Ages, p \in AskingPrices }

\* product.get(key, default)
Get(product, key, default) ==
    IF key \in DOMAIN product THEN product[key] ELSE default

----------------------------------------------------------------------------
(* PriceSuggestorAgent.  Prices are integers; the factors are kept as      *)
(* exact fractions: factor in twentieths (0.9 = 18/20), depreciation in    *)
(* two-hundredths (1 - age * 0.005 = (200 - age) / 200), 0.95 = 19/20 and  *)
(* 1.05 = 21/20.  On Products the double-precision products of the source  *)
(* round to the same integers as the exact ones.                           *)

Max(a, b) == IF a >= b THEN a ELSE b

\* round(num / den) of Python 3: to the nearest integer, a half to the even one
Round(num, den) ==
    LET q == num \div den
        r == num % den
    IN IF 2 * r > den \/ (2 * r = den /\ q % 2 = 1) THEN q + 1 ELSE q

\* factor, in twentieths
ConditionFactor(condition) ==
    IF condition = LikeNew THEN 18
    ELSE IF condition = Good THEN 15
    ELSE IF condition = Fair THEN 12
    ELSE 14

\* a depreciation without the floor of one half, which C6 tells apart
DepreciationNoFloor(age_months) == 200 - age_months

\* depreciation, in two-hundredths
Depreciation(age_months) == Max(200 - age_months, 100)

\* base_price = BasePriceNum / 4000
BasePriceNum(asking_price, condition, age_months) ==
    asking_price * ConditionFactor(condition) * Depreciation(age_months)

RuleBasedPrice(product) ==
    LET asking_price == Get(product, "asking_price", 1000)
        condition == Lower(Get(product, "condition", <<"G", "o", "o", "d">>))
        age_months == Get(product, "age_months", 12)
        base == BasePriceNum(asking_price, condition, age_months)
        min_price == Round(base * 19, 80000)
        max_price == Round(base * 21, 80000)
        reason == <<"Rule-based: category ", Get(product, "category", "None"),
                    ", condition ">> \o condition
                    \o <<", age ", ToString(age_months), " months.">>
    IN Dict((K("min_price") :> Num(min_price)) @@ (K("max_price") :> Num(max_price))
            @@ (K("reason") :> Str(reason)))

\* the prompt of llm_price: the product's fields, in the order of the text
PricePrompt(product) ==
    <<Get(product, "title", "None"), Get(product, "category", "None"),
      Get(product, "brand", "None"), Get(product, "condition", <<>>),
      Get(product, "age_months", -1), Get(product, "asking_price", -1),
      Get(product, "location", "None")>>

LlmPrice(reply) == CompletionJson(reply)

FlagHigh == Str(<<"Suspicious: Asking price way too high.">>)
FlagLow == Str(<<"Suspicious: Asking price way too low.">>)
FlagNormal == Str(<<"Normal">>)

\* a fraud check whose thresholds are inclusive, which C5 tells apart
FraudFlagInclusive(product, result) ==
    LET asking_price == Get(product, "asking_price", 0)
        hi == result.d[K("max_price")]
        lo == result.d[K("min_price")]
    IN
    IF GetItemError(result, K("max_price")) # ""
    THEN Raise(GetItemError(result, K("max_price")))
    ELSE IF TimesFloatError(hi) # "" THEN Raise(TimesFloatError(hi))
    ELSE IF 2 * asking_price >= 3 * hi.n
         THEN Ok(SetItem(result, K("fraud_flag"), FlagHigh))
    ELSE IF GetItemError(result, K("min_price")) # ""
    THEN Raise(GetItemError(result, K("min_price")))
    ELSE IF TimesFloatError(lo) # "" THEN Raise(TimesFloatError(lo))
    ELSE IF 2 * asking_price <= lo.n
         THEN Ok(SetItem(result, K("fraud_flag"), FlagLow))
    ELSE Ok(SetItem(result, K("fraud_flag"), FlagNormal))

\* Step 3 of suggest_price.  asking > max * 1.5 is 2 * asking > 3 * max, and
\* asking < min * 0.5 is 2 * asking < min.  min_price is read only when the
\* first test fails.
FraudFlag(product, result) ==
    LET asking_price == Get(product, "asking_price", 0)
        hi == result.d[K("max_price")]
        lo == result.d[K("min_price")]
    IN
    IF GetItemError(result, K("max_price")) # ""
    THEN Raise(GetItemError(result, K("max_price")))
    ELSE IF TimesFloatError(hi) # "" THEN Raise(TimesFloatError(hi))
    ELSE IF 2 * asking_price > 3 * hi.n
         THEN Ok(SetItem(result, K("fraud_flag"), FlagHigh))
    ELSE IF GetItemError(result, K("min_price")) # ""
    THEN Raise(GetItemError(result, K("min_price")))
    ELSE IF TimesFloatError(lo) # "" THEN Raise(TimesFloatError(lo))
    ELSE IF 2 * asking_price < lo.n
         THEN Ok(SetItem(result, K("fraud_flag"), FlagLow))
    ELSE Ok(SetItem(result, K("fraud_flag"), FlagNormal))

LlmMarker == "LLM + rule-based fallback: "

\* suggest_price(product), the LLM answering with reply
SuggestPriceOutcome(product, reply) ==
    LET result == LlmPrice(reply) IN
    IF Truthy(result)
    THEN IF GetItemError(result, K("reason")) # ""
         THEN Raise(GetItemError(result, K("reason")))
         ELSE FraudFlag(product,
                SetItem(result, K("reason"),
                        Str(<<LlmMarker>> \o Format(result.d[K("reason")]))))
    ELSE FraudFlag(product, RuleBasedPrice(product))

----------------------------------------------------------------------------
(* ChatModerationAgent.  A message is a sequence of characters.            *)

Digits == {"0", "1", "2", "3", "4", "5", "6", "7", "8", "9"}
LowerLetters == {LowerTable[c] : c \in DOMAIN LowerTable}

WordChars == Digits \cup LowerLetters \cup UpperLetters \cup {"_"}

\* \w of the re module
IsWordChar(c) == c \in WordChars

\* \b at offset i: between s[i] and s[i + 1], one a word character and the
\* other not; beyond either end of the string there is no word character
WordBoundary(s, i) ==
    (i >= 1 /\ IsWordChar(s[i])) # (i + 1 <= Len(s) /\ IsWordChar(s[i + 1]))

\* the string s holds the pieces of lit right after offset i
LiteralAt(s, i, lit) ==
    i + Len(lit) <= Len(s) /\ \A j \in 1..Len(lit) : s[i + j] = lit[j]

\* \d{n} right after offset i
DigitsAt(s, i, n) == i + n <= Len(s) /\ \A j \in 1..n : s[i + j] \in Digits

PhoneDigits == 10

\* (?:\+91|0)? at offset i: the lengths it can take
PrefixLengths(s, i) ==
    {0} \cup (IF LiteralAt(s, i, <<"+", "9", "1">>) THEN {3} ELSE {})
        \cup (IF LiteralAt(s, i, <<"0">>) THEN {1} ELSE {})

\* \s? at offset i: the lengths it can take
SpaceLengths(s, i) ==
    {0} \cup (IF i + 1 <= Len(s) /\ s[i + 1] \in Whitespace THEN {1} ELSE {})

\* phone_pattern.search(message) finds a match of
\* \b(?:\+91|0)?\s?\d{10}\b
PhonePatternSearch(message) ==
    \E i \in 0..Len(message) :
        /\ WordBoundary(message, i)
        /\ \E p \in PrefixLengths(message, i) :
            \E w \in SpaceLengths(message, i + p) :
                /\ DigitsAt(message, i + p + w, PhoneDigits)
                /\ WordBoundary(message, i + p + w + PhoneDigits)

spam_keywords ==
    << <<"b", "u", "y", " ", "n", "o", "w">>,
       <<"f", "r", "e", "e">>,
       <<"o", "f", "f", "e", "r">>,
       <<"l", "i", "m", "i", "t", "e", "d">>,
       <<"c", "l", "i", "c", "k", " ", "h", "e", "r", "e">>,
       <<"v", "i", "s", "i", "t", " ", "l", "i", "n", "k">> >>

SpamKeywordSearch(message) ==
    LET lowered == Lower(message) IN
    \E k \in 1..Len(spam_keywords) : Contains(lowered, spam_keywords[k])

PhoneNumberResult ==
    Dict((K("status") :> Str(<<"PhoneNumber">>))
         @@ (K("reason") :> Str(<<"Message contains a phone number.">>)))
SpamResult ==
    Dict((K("status") :> Str(<<"Spam">>))
         @@ (K("reason") :> Str(<<"Message contains spam keywords.">>)))
DefaultSafeResult ==
    Dict((K("status") :> Str(<<"Safe">>))
         @@ (K("reason") :> Str(<<"Defaulted to Safe (no issues found)">>)))

\* a rule check that looks for spam keywords first, which C2 tells apart
RuleBasedCheckSpamFirst(message) ==
    IF SpamKeywordSearch(message) THEN SpamResult
    ELSE IF PhonePatternSearch(message) THEN PhoneNumberResult
    ELSE None

RuleBasedCheck(message) ==
    IF PhonePatternSearch(message) THEN PhoneNumberResult
    ELSE IF SpamKeywordSearch(message) THEN SpamResult
    ELSE None

LlmModeration(reply) == CompletionJson(reply)

\* moderate(message), the LLM answering with reply if it is asked: the
\* outcome, and whether llm_moderation was called
ModerateRun(message, reply) ==
    LET rb_result == RuleBasedCheck(message)
        llm_result == LlmModeration(reply)
    IN
    IF Truthy(rb_result) THEN [out |-> Ok(rb_result), called |-> FALSE]
    ELSE [called |-> TRUE,
          out |->
            IF Truthy(llm_result)
            THEN IF GetItemError(llm_result, K("reason")) # ""
                 THEN Raise(GetItemError(llm_result, K("reason")))
                 ELSE Ok(SetItem(llm_result, K("reason"),
                         Str(<<LlmMarker>> \o Format(llm_result.d[K("reason")]))))
            ELSE Ok(DefaultSafeResult)]

ModerationObject(status) ==
    Object2(Pair("status", status), Pair("reason", Lit(<<"ok">>)))

ModerationReplies ==
    { Failure,
      Text(<<"Sure", " ", "ok">>),
      Text(ModerationObject(Lit(<<"Safe">>))),
      Text(ModerationObject(Lit(<<"Abusive">>))),
      Text(<<" ">> \o ModerationObject(Lit(<<"Spam">>))),
      Text(Fenced(<<"json">>, ModerationObject(Lit(<<"Safe">>)))),
      Text(ModerationObject(Lit(<<"Unknown">>))),
      Text(ModerationObject(<<"null">>)),
      Text(<<"{">> \o Pair("status", Lit(<<"Abusive">>)) \o <<"}">>),
      Text(<<"{">> \o Pair("reason", Lit(<<"ok">>)) \o <<"}">>),
      Text(<<"{", "}">>),
      Text(<<"[">> \o Lit(<<"Safe">>) \o <<"]">>),
      Text(Lit(<<"Safe">>)),
      Text(<<"null">>) }

\* The pieces messages are put together from, and how many of them at most.
MaxPieces == 3

MessagePieces ==
    { <<"9", "8", "7", "6", "5", "4", "3", "2", "1", "0">>,
      <<"+", "9", "1">>,
      <<"0">>,
      <<" ">>,
      <<"h", "i">>,
      <<"F", "r", "e", "e">> }

RECURSIVE Joined(_)
Joined(pieces) ==
    IF pieces = <<>> THEN <<>> ELSE Head(pieces) \o Joined(Tail(pieces))

Messages ==
    UNION { { Joined(ps) : ps \in [1..n -> MessagePieces] } : n \in 0..MaxPieces }

----------------------------------------------------------------------------
(* RecommendationAgent.  The dataset is the sequence of its rows, in file  *)
(* order; ids are unique.                                                  *)

Row(id, title, category, brand, age_months, asking_price) ==
    [id |-> id, title |-> title, category |-> category, brand |-> brand,
     age_months |-> age_months, asking_price |-> asking_price]

\* The rows catalogs are made of (the id is set by Catalog).
RowKinds ==
    { Row(0, "iPhone 12", "Mobile", "Apple", 10, 1000),
      Row(0, "iPhone 13", "Mobile", "Apple", 22, 6000),
      Row(0, "Inspiron", "Laptop", "Dell", 23, 6001),
      Row(0, "MacBook", "Laptop", "Apple", 10, 1000),
      Row(0, "Venue", "Mobile", "Dell", 10, 6001) }

MaxRows == 3
MaxTopN == 3

\* Rows get the ids n, n - 1, ..., 1: file order is not id order.
Catalog(kinds) ==
    [i \in 1..Len(kinds) |-> [kinds[i] EXCEPT !.id = Len(kinds) + 1 - i]]

Catalogs ==
    UNION { { Catalog(ks) : ks \in [1..n -> RowKinds] } : n \in 0..MaxRows }

SampleCatalogs ==
    { Catalog(<<Row(0, "iPhone 12", "Mobile", "Apple", 10, 1000),
                Row(0, "iPhone 13", "Mobile", "Apple", 22, 6000),
                Row(0, "MacBook", "Laptop", "Apple", 10, 1000)>>),
      Catalog(<<Row(0, "iPhone 12", "Mobile", "Apple", 10, 1000),
                Row(0, "Venue", "Mobile", "Dell", 10, 6001),
                Row(0, "Venue", "Mobile", "Dell", 10, 6001)>>) }

\* sort_values(kind="quicksort"), the default, is not a stable sort: which
\* of two rows with equal similarity comes first depends on the build of
\* the sorting library.  The two outcomes modelled: they keep their order,
\* or they come out in the opposite order.
TieOrders == {"kept", "reversed"}

Abs(x) == IF x < 0 THEN -x ELSE x

\* frame[mask]: the rows of frame at the indices in mask, in order
Select(frame, mask) ==
    [k \in 1..Cardinality(mask) |->
        frame[CHOOSE i \in mask : Cardinality({j \in mask : j < i}) = k - 1]]

\* a score that gives one point for the brand, which C8 tells apart
SimilarityBrandOne(row, product) ==
    (IF row.brand = product.brand THEN 1 ELSE 0)
    + (IF Abs(row.age_months - product.age_months) <= 12 THEN 1 ELSE 0)
    + (IF Abs(row.asking_price - product.asking_price) <= 5000 THEN 1 ELSE 0)

\* score(row) of recommend, for the target row product
Similarity(row, product) ==
    (IF row.brand = product.brand THEN 2 ELSE 0)
    + (IF Abs(row.age_months - product.age_months) <= 12 THEN 1 ELSE 0)
    + (IF Abs(row.asking_price - product.asking_price) <= 5000 THEN 1 ELSE 0)

\* same_category["similarity"] = same_category.apply(score, axis=1)
WithSimilarity(frame, product) ==
    [i \in 1..Len(frame) |->
        [id |-> frame[i].id, title |-> frame[i].title,
         category |-> frame[i].category, brand |-> frame[i].brand,
         age_months |-> frame[i].age_months,
         asking_price |-> frame[i].asking_price,
         similarity |-> Similarity(frame[i], product)]]

\* row i of frame comes out before row j
SortsBefore(frame, i, j, tie) ==
    \/ frame[i].similarity > frame[j].similarity
    \/ /\ frame[i].similarity = frame[j].similarity
       /\ IF tie = "kept" THEN i < j ELSE i > j

\* frame.sort_values(by="similarity", ascending=False)
SortValues(frame, tie) ==
    [k \in 1..Len(frame) |->
        frame[CHOOSE i \in 1..Len(frame) :
                Cardinality({j \in 1..Len(frame) : SortsBefore(frame, j, i, tie)})
                    = k - 1]]

\* frame.head(n), n >= 0
HeadRows(frame, n) == SubSeq(frame, 1, IF n < Len(frame) THEN n ELSE Len(frame))

\* a recommend that filters the dataset in place instead of a copy, which
\* C10 tells apart
RecommendRunInPlace(ds, product_id, top_n, tie) ==
    LET matching == Select(ds, {i \in 1..Len(ds) : ds[i].id = product_id})
        product == matching[1]
        same_category ==
            Select(ds, {i \in 1..Len(ds) : ds[i].category = product.category
                                           /\ ds[i].id # product_id})
        recommendations ==
            HeadRows(SortValues(WithSimilarity(same_category, product), tie), top_n)
    IN
    IF matching = <<>>
    THEN [dataset |-> ds,
          out |-> Ok([error |->
                        <<"Product with id ", ToString(product_id), " not found.">>])]
    ELSE [dataset |-> same_category,
          out |-> Ok([product_id |-> product_id, title |-> product.title,
                      recommendations |-> recommendations])]

\* recommend(product_id, top_n) on the dataset ds: the outcome, and the
\* dataset as the call leaves it (the similarity column goes to a copy)
RecommendRun(ds, product_id, top_n, tie) ==
    LET matching == Select(ds, {i \in 1..Len(ds) : ds[i].id = product_id})
        product == matching[1]
        same_category ==
            Select(ds, {i \in 1..Len(ds) : ds[i].category = product.category
                                           /\ ds[i].id # product_id})
        recommendations ==
            HeadRows(SortValues(WithSimilarity(same_category, product), tie), top_n)
    IN
    IF matching = <<>>
    THEN [dataset |-> ds,
          out |-> Ok([error |->
                        <<"Product with id ", ToString(product_id), " not found.">>])]
    ELSE [dataset |-> ds,
          out |-> Ok([product_id |-> product_id, title |-> product.title,
                      recommendations |-> recommendations])]

----------------------------------------------------------------------------
(* Logger (src/utils/logger.py).  The handlers of main.py are plain       *)
(* functions, which the server runs on the threads of a pool, so logging   *)
(* calls of different requests overlap; each statement that touches a      *)
(* file is a step.  A file holds what the last close left in it.           *)

Logs == {"negotiation", "moderation"}
Workers == {"t1", "t2"}
MaxLogCalls == 3

\* json.dump / json.dumps: the JSON document of a Python value
RECURSIVE JsonDump(_)
JsonDump(v) ==
    CASE v.t = "null" -> [j |-> "null", n |-> 0, s |-> <<>>, c |-> <<>>]
      [] v.t = "num" -> [j |-> "number", n |-> v.n, s |-> <<>>, c |-> <<>>]
      [] v.t = "str" -> [j |-> "string", n |-> 0, s |-> v.s, c |-> <<>>]
      [] v.t = "list" ->
            [j |-> "array", n |-> 0, s |-> <<>>,
             c |-> [i \in DOMAIN v.d |-> JsonDump(v.d[i])]]
      [] OTHER ->
            [j |-> "object", n |-> 0, s |-> <<>>,
             c |-> [k \in DOMAIN v.d |-> JsonDump(v.d[k])]]

\* json.load: the Python value of a JSON document
RECURSIVE JsonLoad(_)
JsonLoad(doc) ==
    CASE doc.j = "null" -> None
      [] doc.j = "number" -> Num(doc.n)
      [] doc.j = "string" -> Str(doc.s)
      [] doc.j = "array" -> List([i \in DOMAIN doc.c |-> JsonLoad(doc.c[i])])
      [] OTHER -> Dict([k \in DOMAIN doc.c |-> JsonLoad(doc.c[k])])

\* A JSON log file: not there, of zero bytes (opened for writing, nothing
\* flushed yet), a JSON document, or bytes of two documents that do not
\* decode.
NoFile == [state |-> "absent", doc |-> JsonDump(None)]
EmptyFile == [state |-> "empty", doc |-> JsonDump(None)]
JsonText(doc) == [state |-> "json", doc |-> doc]
Garbled == [state |-> "garbled", doc |-> JsonDump(None)]

\* product.dict() of the handler: the request's fields as a dict
ProductDict(product) ==
    Dict([k \in {K(f) : f \in DOMAIN product} |->
            LET f == k[1] IN
            IF f \in {"age_months", "asking_price"} THEN Num(product[f])
            ELSE IF f = "condition" THEN Str(product[f])
            ELSE Str(<<product[f]>>)])

\* What the handlers pass to the logger: a product with the result of
\* suggest_price, a message with the result of moderate.
LogCalls ==
    { [log |-> "negotiation", key |-> None,
       input |-> ProductDict(Product(Good, 24, 150)),
       output |-> SuggestPriceOutcome(Product(Good, 24, 150), Failure).value],
      [log |-> "negotiation", key |-> Num(1),
       input |-> ProductDict(Product(Fair, 0, 1000)),
       output |-> SuggestPriceOutcome(Product(Fair, 0, 1000),
                                      Text(PriceObject("100", "150"))).value],
      [log |-> "moderation", key |-> Str(<<"h", "i">>),
       input |-> None,
       output |-> ModerateRun(<<"h", "i">>, Failure).out.value] }

\* datetime.now().isoformat() of the n-th call: the clock moves on between
\* calls
Timestamp(n) == Str(<<"T", ToString(n)>>)

\* the entry handed to _append_json
LogEntry(call, timestamp) ==
    IF call.log = "negotiation"
    THEN Dict((K("timestamp") :> timestamp) @@ (K("product_id") :> call.key)
              @@ (K("input") :> call.input) @@ (K("output") :> call.output))
    ELSE Dict((K("timestamp") :> timestamp) @@ (K("message") :> call.key)
              @@ (K("output") :> call.output))

\* the row handed to csv.writer
LogRow(call, timestamp) ==
    IF call.log = "negotiation"
    THEN <<timestamp, call.key, JsonDump(call.input), JsonDump(call.output)>>
    ELSE <<timestamp, call.key, JsonDump(call.output)>>

CsvHeader(log) ==
    IF log = "negotiation"
    THEN <<"timestamp", "product_id", "input", "output">>
    ELSE <<"timestamp", "message", "output">>

Idle == [log |-> "none", row |-> <<>>, entry |-> None, data |-> <<>>]

\* Logger._init: the directory, the CSV files with their headers
LogInit ==
    /\ csvFile = [log \in Logs |-> <<CsvHeader(log)>>]
    /\ jsonFile = [log \in Logs |-> NoFile]
    /\ pc = [w \in Workers |-> "idle"]
    /\ locals = [w \in Workers |-> Idle]
    /\ logged = [log \in Logs |-> <<>>]
    /\ started = 0

\* log_negotiation / log_moderation begin: the timestamp and the row
LogBegin(w) ==
    /\ pc[w] = "idle"
    /\ started < MaxLogCalls
    /\ \E call \in LogCalls :
        LET timestamp == Timestamp(started + 1) IN
        locals' = [locals EXCEPT ![w] =
                    [log |-> call.log, row |-> LogRow(call, timestamp),
                     entry |-> LogEntry(call, timestamp), data |-> <<>>]]
    /\ started' = started + 1
    /\ pc' = [pc EXCEPT ![w] = "csv"]
    /\ UNCHANGED <<csvFile, jsonFile, logged>>
    /\ UNCHANGED agentVars

\* with open(csv, "a"): writer.writerow(row)
AppendCsv(w) ==
    /\ pc[w] = "csv"
    /\ csvFile' = [csvFile EXCEPT ![locals[w].log] = Append(@, locals[w].row)]
    /\ pc' = [pc EXCEPT ![w] = "read"]
    /\ UNCHANGED <<jsonFile, locals, logged, started>>
    /\ UNCHANGED agentVars

\* _append_json up to data.append(entry): a file that is not there, or
\* that does not decode, gives an empty list
ReadJson(w) ==
    /\ pc[w] = "read"
    /\ LET file == jsonFile[locals[w].log]
           data == IF file.state = "json" THEN JsonLoad(file.doc).d ELSE <<>>
       IN locals' = [locals EXCEPT ![w].data = Append(data, locals[w].entry)]
    /\ pc' = [pc EXCEPT ![w] = "open"]
    /\ UNCHANGED <<csvFile, jsonFile, logged, started>>
    /\ UNCHANGED agentVars

\* open(filepath, "w"): the file is cut to zero bytes
OpenJson(w) ==
    /\ pc[w] = "open"
    /\ jsonFile' = [jsonFile EXCEPT ![locals[w].log] = EmptyFile]
    /\ pc' = [pc EXCEPT ![w] = "dump"]
    /\ UNCHANGED <<csvFile, locals, logged, started>>
    /\ UNCHANGED agentVars

\* What the file holds after this handle's bytes go to offset 0 of it: over
\* a longer document the tail of that one stays behind the new one, over a
\* shorter one nothing stays, and for documents of as many entries the
\* byte lengths decide.
AfterWrite(file, data) ==
    IF file.state \in {"absent", "empty"} THEN {JsonText(JsonDump(List(data)))}
    ELSE IF file.state = "garbled" THEN {Garbled, JsonText(JsonDump(List(data)))}
    ELSE IF Len(file.doc.c) > Len(data) THEN {Garbled}
    ELSE IF Len(file.doc.c) < Len(data) THEN {JsonText(JsonDump(List(data)))}
    ELSE {Garbled, JsonText(JsonDump(List(data)))}

\* json.dump(data, f, indent=2) and the close of the file; the call returns
DumpJson(w) ==
    /\ pc[w] = "dump"
    /\ \E file \in AfterWrite(jsonFile[locals[w].log], locals[w].data) :
        jsonFile' = [jsonFile EXCEPT ![locals[w].log] = file]
    /\ logged' = [logged EXCEPT ![locals[w].log] = Append(@, locals[w].entry)]
    /\ pc' = [pc EXCEPT ![w] = "idle"]
    /\ locals' = [locals EXCEPT ![w] = Idle]
    /\ UNCHANGED <<csvFile, started>>
    /\ UNCHANGED agentVars

----------------------------------------------------------------------------
(* The requests.  Each handler of main.py runs one pipeline call while no  *)
(* other is under way; a call may be made again with the same argument     *)
(* object (MaxCalls times in a row at most), the LLM answering the same    *)
(* prompt with the same reply.                                             *)

MaxCalls == 2

NoExchange == [called |-> FALSE, prompt |-> <<>>, reply |-> Failure]
Exchange(prompt, reply) == [called |-> TRUE, prompt |-> prompt, reply |-> reply]

Init ==
    /\ dataset \in SampleCatalogs
    /\ tieOrder \in TieOrders
    /\ op = "none"
    /\ arg = None
    /\ llm = NoExchange
    /\ out = Ok(None)
    /\ first = Ok(None)
    /\ calls = 0
    /\ LogInit

InitAnyCatalog ==
    /\ dataset \in Catalogs
    /\ tieOrder \in TieOrders
    /\ op = "none"
    /\ arg = None
    /\ llm = NoExchange
    /\ out = Ok(None)
    /\ first = Ok(None)
    /\ calls = 0
    /\ LogInit

SuggestPrice ==
    /\ op = "none"
    /\ \E product \in Products, reply \in PriceReplies :
        /\ op' = "suggest_price"
        /\ arg' = product
        /\ llm' = Exchange(PricePrompt(product), reply)
        /\ out' = SuggestPriceOutcome(product, reply)
        /\ first' = out'
        /\ calls' = 1
        /\ UNCHANGED <<dataset, tieOrder>>
    /\ UNCHANGED logVars

SuggestPriceAgain ==
    /\ op = "suggest_price"
    /\ calls < MaxCalls
    /\ PricePrompt(arg) = llm.prompt
    /\ out' = SuggestPriceOutcome(arg, llm.reply)
    /\ calls' = calls + 1
    /\ UNCHANGED <<dataset, tieOrder, op, arg, llm, first>>
    /\ UNCHANGED logVars

\* The replies to try for a message: one is enough when the rules settle
\* the message, since the LLM is then not asked.
RepliesFor(message) ==
    IF ModerateRun(message, Failure).called THEN ModerationReplies ELSE {Failure}

Moderate ==
    /\ op = "none"
    /\ \E message \in Messages : \E reply \in RepliesFor(message) :
        LET run == ModerateRun(message, reply) IN
        /\ op' = "moderate"
        /\ arg' = message
        /\ llm' = IF run.called THEN Exchange(message, reply) ELSE NoExchange
        /\ out' = run.out
        /\ first' = out'
        /\ calls' = 1
        /\ UNCHANGED <<dataset, tieOrder>>
    /\ UNCHANGED logVars

ModerateAgain ==
    /\ op = "moderate"
    /\ calls < MaxCalls
    /\ \E reply \in (IF llm.called /\ llm.prompt = arg
                     THEN {llm.reply} ELSE RepliesFor(arg)) :
        LET run == ModerateRun(arg, reply) IN
        /\ llm' = IF run.called THEN Exchange(arg, reply) ELSE NoExchange
        /\ out' = run.out
    /\ calls' = calls + 1
    /\ UNCHANGED <<dataset, tieOrder, op, arg, first>>
    /\ UNCHANGED logVars

Recommend ==
    /\ op = "none"
    /\ \E product_id \in 0..MaxRows, top_n \in 0..MaxTopN :
        LET run == RecommendRun(dataset, product_id, top_n, tieOrder) IN
        /\ op' = "recommend"
        /\ arg' = [product_id |-> product_id, top_n |-> top_n]
        /\ llm' = NoExchange
        /\ out' = run.out
        /\ dataset' = run.dataset
        /\ first' = out'
        /\ calls' = 1
        /\ UNCHANGED tieOrder
    /\ UNCHANGED logVars

RecommendAgain ==
    /\ op = "recommend"
    /\ calls < MaxCalls
    /\ LET run == RecommendRun(dataset, arg.product_id, arg.top_n, tieOrder) IN
        /\ out' = run.out
        /\ dataset' = run.dataset
    /\ calls' = calls + 1
    /\ UNCHANGED <<tieOrder, op, arg, llm, first>>
    /\ UNCHANGED logVars

\* The handler returns: the objects of the request are dropped, the agents
\* and the dataset stay.
Return ==
    /\ op # "none"
    /\ op' = "none"
    /\ arg' = None
    /\ llm' = NoExchange
    /\ out' = Ok(None)
    /\ first' = Ok(None)
    /\ calls' = 0
    /\ UNCHANGED <<dataset, tieOrder>>
    /\ UNCHANGED logVars

\* Completion texts that are a JSON object between fences: the words the
\* string values are made of, how many at most, the objects, the tags.
FenceWords == {"ok", "json", Backtick}
MaxWords == 2

WordStrings == UNION { [1..n -> FenceWords] : n \in 0..MaxWords }

FencedBodies ==
    { <<"{">> \o Pair(key, Lit(ws)) \o <<"}">> :
        key \in {"reason", "json"}, ws \in WordStrings }
    \cup { PriceObject("100", "150"), ModerationObject(Lit(<<"Safe">>)) }

FenceTags == {<<>>, <<"json">>}

\* llm_price on its own, the LLM giving a fenced JSON object; arg keeps the
\* JSON text that is between the fences
LlmPriceFenced ==
    /\ op = "none"
    /\ \E tag \in FenceTags, body \in FencedBodies :
        /\ op' = "llm_price"
        /\ arg' = body
        /\ llm' = Exchange(PricePrompt(Product(Good, 24, 150)),
                           Text(Fenced(tag, body)))
        /\ out' = Ok(LlmPrice(Text(Fenced(tag, body))))
        /\ first' = out'
        /\ calls' = 1
        /\ UNCHANGED <<dataset, tieOrder>>
    /\ UNCHANGED logVars

\* llm_moderation on its own, the LLM giving a fenced JSON object
LlmModerationFenced ==
    /\ op = "none"
    /\ \E tag \in FenceTags, body \in FencedBodies :
        /\ op' = "llm_moderation"
        /\ arg' = body
        /\ llm' = Exchange(<<"h", "i">>, Text(Fenced(tag, body)))
        /\ out' = Ok(LlmModeration(Text(Fenced(tag, body))))
        /\ first' = out'
        /\ calls' = 1
        /\ UNCHANGED <<dataset, tieOrder>>
    /\ UNCHANGED logVars

NextPrice == SuggestPrice \/ SuggestPriceAgain \/ Return
NextChat == Moderate \/ ModerateAgain \/ Return
NextRecommend == Recommend \/ RecommendAgain \/ Return
Next == SuggestPrice \/ SuggestPriceAgain \/ Moderate \/ ModerateAgain
            \/ Recommend \/ RecommendAgain \/ Return

Spec == Init /\ [][Next]_vars
SpecPrice == Init /\ [][NextPrice]_vars
SpecChat == Init /\ [][NextChat]_vars
SpecRecommend == InitAnyCatalog /\ [][NextRecommend]_vars

NextParse == LlmPriceFenced \/ LlmModerationFenced \/ Return
SpecParse == Init /\ [][NextParse]_vars

NextLog ==
    \E w \in Workers :
        LogBegin(w) \/ AppendCsv(w) \/ ReadJson(w) \/ OpenJson(w) \/ DumpJson(w)
SpecLog == Init /\ [][NextLog]_vars

----------------------------------------------------------------------------
(* What the claims are stated with *)

Returned == out.raised = ""
HasField(name) == Returned /\ out.value.t = "dict" /\ K(name) \in DOMAIN out.value.d
Field(name) == out.value.d[K(name)]

\* the result came from rule_based_price: its reason starts as that of line 48
FromRuleEngine ==
    /\ HasField("reason")
    /\ Field("reason").t = "str"
    /\ Field("reason").s # <<>>
    /\ Field("reason").s[1] = "Rule-based: category "

\* the LLM attempt of the last call came to nothing: the call raised, or the
\* text did not decode
LlmAttemptAbsent == llm.called /\ CompletionJson(llm.reply) = None

\* the LLM attempt of the last call is a JSON object with all of these fields
LlmObjectWith(names) ==
    /\ llm.called
    /\ CompletionJson(llm.reply).t = "dict"
    /\ \A name \in names : K(name) \in DOMAIN CompletionJson(llm.reply).d

----------------------------------------------------------------------------
\* C1: suggest_price never raises, whatever the LLM call gives (an exception,
\* text that is no JSON, a JSON object without min_price, max_price or
\* reason, JSON that is no object): the incomplete attempt counts as absent,
\* the rule-based estimate is returned, and the result always has min_price,
\* max_price, reason and fraud_flag.
C1_SuggestPriceNeverRaises ==
    op = "suggest_price" =>
        /\ Returned
        /\ \A name \in {"min_price", "max_price", "reason", "fraud_flag"} :
                HasField(name)
        /\ ~LlmObjectWith({"min_price", "max_price", "reason"}) => FromRuleEngine

\* C2: moderate decides by a first-match-wins cascade.  A phone number gives
\* status PhoneNumber even beside a spam keyword; otherwise a spam keyword
\* gives status Spam; in both cases the LLM is not called.  Only when neither
\* rule matches is the LLM called, and when that attempt is absent the result
\* is status Safe with the default reason.
C2_ModerateCascade ==
    op = "moderate" =>
        /\ PhonePatternSearch(arg) =>
                /\ ~llm.called
                /\ HasField("status") /\ Field("status").s = <<"PhoneNumber">>
        /\ ~PhonePatternSearch(arg) /\ SpamKeywordSearch(arg) =>
                /\ ~llm.called
                /\ HasField("status") /\ Field("status").s = <<"Spam">>
        /\ ~PhonePatternSearch(arg) /\ ~SpamKeywordSearch(arg) =>
                /\ llm.called
                /\ LlmAttemptAbsent =>
                        /\ Returned
                        /\ DOMAIN out.value.d = {K("status"), K("reason")}
                        /\ Field("status").s = <<"Safe">>
                        /\ Field("reason").s = <<"Defaulted to Safe (no issues found)">>

\* C2 witness: a message with a phone number and a spam keyword was moderated.
C2_Witness ==
    /\ op = "moderate"
    /\ calls = 1
    /\ PhonePatternSearch(arg)
    /\ SpamKeywordSearch(arg)
    /\ Field("status").s = <<"PhoneNumber">>

\* C3: moderate never raises, whatever the message and the LLM response (an
\* unexpected status, no status or no reason, JSON that is no object): the
\* result has status and reason, and status is Safe, Abusive, Spam or
\* PhoneNumber.
C3_ModerateResultComplete ==
    op = "moderate" =>
        /\ Returned
        /\ HasField("status")
        /\ HasField("reason")
        /\ Field("status").t = "str"
        /\ Field("status").s \in {<<"Safe">>, <<"Abusive">>, <<"Spam">>, <<"PhoneNumber">>}

\* A 10-digit number stands in s as a token of its own, after offset i: bare,
\* or right after the prefix +91 or 0, with or without one space in between.
\* The token, prefix included, is set off from what is around it.
TokenStart(s, i) == i = 0 \/ s[i] \notin WordChars
TokenEnd(s, i) == i = Len(s) \/ s[i + 1] \notin WordChars

PhoneTokenAt(s, i) ==
    /\ DigitsAt(s, i, PhoneDigits)
    /\ TokenEnd(s, i + PhoneDigits)
    /\ \/ TokenStart(s, i)
       \/ i >= 3 /\ LiteralAt(s, i - 3, <<"+", "9", "1">>)
                 /\ (i = 3 \/ s[i - 3] \in Whitespace)
       \/ i >= 4 /\ LiteralAt(s, i - 4, <<"+", "9", "1", " ">>)
                 /\ (i = 4 \/ s[i - 4] \in Whitespace)
       \/ i >= 1 /\ s[i] = "0" /\ TokenStart(s, i - 1)
       \/ i >= 2 /\ s[i] = " " /\ s[i - 1] = "0" /\ TokenStart(s, i - 2)

HasPhoneToken(s) == \E i \in 0..Len(s) : PhoneTokenAt(s, i)

\* C4: every message holding a 10-digit number as a token of its own (bare,
\* after +91, or after 0, with or without one space) is matched by the phone
\* detector, and moderate returns status PhoneNumber.
C4_PhoneNumberForms ==
    op = "moderate" /\ HasPhoneToken(arg) =>
        /\ PhonePatternSearch(arg)
        /\ HasField("status")
        /\ Field("status").s = <<"PhoneNumber">>

\* C5: every result of suggest_price, its range from the LLM or from the
\* rules, has fraud_flag set to the too-high flag iff asking_price >
\* max_price * 1.5, otherwise to the too-low flag iff asking_price <
\* min_price * 0.5, otherwise to Normal (so at either threshold: Normal).
C5_FraudFlag ==
    op = "suggest_price" /\ Returned =>
        /\ HasField("fraud_flag")
        /\ HasField("max_price")
        /\ 10 * arg.asking_price <= 15 * Field("max_price").n => HasField("min_price")
        /\ Field("fraud_flag").s =
            IF 10 * arg.asking_price > 15 * Field("max_price").n
            THEN <<"Suspicious: Asking price way too high.">>
            ELSE IF 10 * arg.asking_price < 5 * Field("min_price").n
            THEN <<"Suspicious: Asking price way too low.">>
            ELSE <<"Normal">>

\* C5 witness: an LLM range was annotated with asking_price exactly at
\* max_price * 1.5, which is Normal.
C5_Witness ==
    /\ op = "suggest_price"
    /\ Returned
    /\ ~FromRuleEngine
    /\ HasField("max_price")
    /\ 10 * arg.asking_price = 15 * Field("max_price").n
    /\ Field("fraud_flag").s = <<"Normal">>

\* m is round(num / den): the nearest integer, the even one of two
IsRounded(m, num, den) ==
    /\ 2 * Abs(num - m * den) <= den
    /\ 2 * Abs(num - m * den) = den => m % 2 = 0

\* The factor of the claim, in hundredths, by the condition as given.
StatedFactor(condition, likeNew) ==
    IF Lower(condition) = likeNew THEN 90
    ELSE IF Lower(condition) = <<"g", "o", "o", "d">> THEN 75
    ELSE IF Lower(condition) = <<"f", "a", "i", "r">> THEN 60
    ELSE 70

\* max(1 - age_months * 0.005, 0.5), in thousandths
StatedDepreciation(age_months) ==
    IF 1000 - 5 * age_months >= 500 THEN 1000 - 5 * age_months ELSE 500

\* The rule-based range is round(base * 0.95) .. round(base * 1.05) for base =
\* asking_price * factor * depreciation.  A fifth of the hundredths, of the
\* thousandths and of 95 and 105 keeps the products small:
\* base * 0.95 = asking * (factor / 5) * (depreciation / 5) * 19 / 80000.
RuleRangeAsStated(likeNew) ==
    op = "suggest_price" /\ FromRuleEngine =>
        LET base == arg.asking_price
                        * (StatedFactor(arg.condition, likeNew) \div 5)
                        * (StatedDepreciation(arg.age_months) \div 5)
        IN /\ IsRounded(Field("min_price").n, base * 19, 80000)
           /\ IsRounded(Field("max_price").n, base * 21, 80000)
           /\ 2 * StatedDepreciation(arg.age_months) >= 1000

C7_MinAtMostMax ==
    op = "suggest_price" /\ Returned /\ arg.age_months >= 0 /\ arg.asking_price > 0 =>
        /\ HasField("min_price")
        /\ HasField("max_price")
        /\ Field("min_price").n <= Field("max_price").n

\* The rows the request names, and the candidates the claims speak of: the
\* rows of the target's category other than the target.
TargetRows == {i \in 1..Len(dataset) : dataset[i].id = arg.product_id}
Target == dataset[CHOOSE i \in TargetRows : TRUE]
Candidates ==
    {i \in 1..Len(dataset) : dataset[i].category = Target.category /\ i \notin TargetRows}

StatedScore(row) ==
    (IF row.brand = Target.brand THEN 2 ELSE 0)
    + (IF row.age_months - Target.age_months \in -12..12 THEN 1 ELSE 0)
    + (IF row.asking_price - Target.asking_price \in -5000..5000 THEN 1 ELSE 0)

\* the candidates that were returned, by their place in the dataset
ReturnedRows ==
    {i \in Candidates :
        \E k \in 1..Len(out.value.recommendations) :
            out.value.recommendations[k].id = dataset[i].id}

RecommendResult ==
    op = "recommend" =>
        /\ Returned
        /\ TargetRows = {} => DOMAIN out.value = {"error"}
        /\ TargetRows # {} =>
            /\ DOMAIN out.value = {"product_id", "title", "recommendations"}
            /\ LET recs == out.value.recommendations
                   n == Cardinality(Candidates)
               IN
               /\ Len(recs) = IF arg.top_n < n THEN arg.top_n ELSE n
               /\ \A k \in 1..Len(recs) :
                    \E i \in Candidates :
                        /\ \A f \in DOMAIN dataset[i] : recs[k][f] = dataset[i][f]
                        /\ recs[k].similarity = StatedScore(dataset[i])
               /\ \A k1, k2 \in 1..Len(recs) : k1 # k2 => recs[k1].id # recs[k2].id
               /\ \A k \in 1..(Len(recs) - 1) :
                    recs[k].similarity >= recs[k + 1].similarity
               /\ \A i \in Candidates \ ReturnedRows :
                    \A k \in 1..Len(recs) :
                        StatedScore(dataset[i]) <= recs[k].similarity

\* C8: recommend returns a not-found result (no exception, the catalog as it
\* was) when no row has the id; otherwise min(top_n, number of candidates)
\* rows, the candidates being the rows of the target's category other than
\* the target, each scored 2 * (same brand) + (age within 12) + (asking
\* price within 5000), in non-increasing score order, no omitted candidate
\* scoring above a returned one.  No call changes the catalog.
C8_Recommend == [](RecommendResult) /\ [][dataset' = dataset]_vars

\* C8 witness: a ranking was cut by top_n, between rows of different scores,
\* and another request found no such product.
C8_Witness ==
    /\ op = "recommend"
    /\ TargetRows # {}
    /\ Len(out.value.recommendations) = arg.top_n
    /\ arg.top_n >= 1
    /\ \E i \in Candidates \ ReturnedRows :
        StatedScore(dataset[i]) < out.value.recommendations[arg.top_n].similarity

\* the place in the dataset of the row with this id
Place(id) == CHOOSE i \in 1..Len(dataset) : dataset[i].id = id

\* C9: in the ranking, candidates with equal score are in their catalog
\* order, and when top_n cuts a group of equal scores the rows kept are the
\* ones that come first in the catalog.
C9_TiesInCatalogOrder ==
    op = "recommend" /\ TargetRows # {} =>
        LET recs == out.value.recommendations IN
        /\ \A k1, k2 \in 1..Len(recs) :
            k1 < k2 /\ recs[k1].similarity = recs[k2].similarity
                => Place(recs[k1].id) < Place(recs[k2].id)
        /\ \A i \in Candidates \ ReturnedRows :
            \A k \in 1..Len(recs) :
                recs[k].similarity = StatedScore(dataset[i])
                    => Place(recs[k].id) < i

\* C10: suggest_price, moderate or recommend called twice in a row with the
\* same input, the LLM giving the same text for the same prompt and the
\* catalog untouched from outside, gives the same outcome both times.
C10_SameOutcomeTwice == calls >= 2 => out = first

\* C10 witness: recommend ran twice on the same request and ranked at least
\* two rows.
C10_Witness ==
    /\ calls = 2
    /\ op = "recommend"
    /\ TargetRows # {}
    /\ Len(out.value.recommendations) >= 2

\* no logging call is under way
Quiescent == \A w \in Workers : pc[w] = "idle"

\* the entries the JSON log gives when it is read back
LogEntries(log) ==
    IF jsonFile[log].state = "json" THEN JsonLoad(jsonFile[log].doc).d ELSE <<>>

LogHoldsCompletedCalls(log) ==
    LET entries == LogEntries(log) IN
    /\ Len(entries) = Len(logged[log])
    /\ \A i \in 1..Len(logged[log]) :
        Cardinality({k \in 1..Len(entries) : entries[k] = logged[log][i]}) = 1
    /\ Len(entries) = Len(csvFile[log]) - 1

\* C11: once the log_negotiation and log_moderation calls that were made
\* have all returned, one after another or overlapping, each JSON log reads
\* back as exactly one entry per call that returned, with the input and
\* output that were passed, no entry of an earlier call gone or changed,
\* and as many entries as the CSV log has data rows.
C11_LogsAppendOnly == Quiescent => \A log \in Logs : LogHoldsCompletedCalls(log)

\* C12: for a completion text that is a JSON object between a leading and a
\* trailing fence of three backticks, with or without the tag json after the
\* leading fence, llm_price and llm_moderation decode it and return the
\* object that decoding the JSON text alone gives: only the fences and the
\* tag are removed, also when a key or a string value holds the word json or
\* backticks.
C12_FenceStripping ==
    op \in {"llm_price", "llm_moderation"} =>
        /\ JsonLoads(arg).ok
        /\ out.value = JsonLoads(arg).v
====
